---- MODULE Spec2Model ----
(***************************************************************************)
(* Runtime configuration manager (package runtimeconfig): a service that   *)
(* loads a configuration object from a bucket at start, reloads it on      *)
(* every tick of a ticker, keeps the last decoded value for GetConfig and  *)
(* offers it to the registered listener channels with non-blocking sends.  *)
(*                                                                         *)
(* One worker goroutine runs starting, loop and stopping in turn; client   *)
(* goroutines call CreateListenerChannel, CloseListenerChannel, GetConfig  *)
(* and receive from their channels at any moment.                          *)
(***************************************************************************)
EXTENDS Integers, Sequences, FiniteSets, TLC

\* ------------------------------------------------------------------ bounds
MaxChans == 2      \* channels CreateListenerChannel makes in one behaviour
MaxBuffer == 1     \* largest buffer argument of CreateListenerChannel
MaxCycles == 3     \* loadConfig calls in one behaviour (initial load + ticks)

\* ------------------------------------------------------------------ inputs
\* Contents the bucket can hold: "bad" is a content the Loader rejects.
Bytes == {"bad", "B1", "B2"}
Buffers == 0..MaxBuffer
\* cfg.LoadPath: empty, or the name of the object to load.
LoadPaths == {"", "cfg.yaml"}
\* Handle 0 is a channel this manager never issued.
Foreign == 0

\* ------------------------------------------------------------------ values
\* The absent configuration (Go nil): om.config before the first load.
Nil == [cycle |-> 0, content |-> "nil"]
\* An interface value of which only one of its two words has been written.
Torn == [cycle |-> -1, content |-> "torn"]

VARIABLES
  loadPath,          \* cfg.LoadPath given to New
  state,             \* service state: Init, NoManager, New, Starting, Running, Stopping, Terminated, Failed
  wpc,               \* position of the service goroutine
  ctxDone,           \* the service context is cancelled
  tickerOn,          \* time.NewTicker ran and ticker.Stop did not
  tickPending,       \* a tick waits in ticker.C
  cycle,             \* number of loadConfig calls begun
  hash,              \* loadConfig's local hash
  cfg,               \* loadConfig's local cfg (the decoded value)
  err,               \* what the last call of the factory / loadConfig returned
  bucketClient,      \* om.bucketClient is set
  listenersMtx,      \* holder of om.listenersMtx: "free" or "worker"
  listeners,         \* om.listeners: sequence of channel ids
  clIdx,             \* callListeners' range index
  configWriter,      \* the worker holds om.configMtx for writing
  config,            \* om.config
  configLoadSuccess, \* gauge runtime_config_last_reload_successful
  configHash,        \* gauge vector runtime_config_hash: the labels set to 1
  chans,             \* every channel made so far, by id
  panicked,          \* a send on, or a close of, a closed channel happened
  lastGet,           \* what the last completed GetConfig returned
  \* history
  published,         \* values of the successful cycles, in cycle order
  pre,               \* om.config and the hash gauge when the current cycle began
  loopInvoked,       \* loop was called
  stopChans          \* number of channels made when stopping ran, -1 before

vars == <<loadPath, state, wpc, ctxDone, tickerOn, tickPending, cycle, hash, cfg,
          err, bucketClient, listenersMtx, listeners, clIdx, configWriter, config,
          configLoadSuccess, configHash, chans, panicked, lastGet,
          published, pre, loopInvoked, stopChans>>

workerVars == <<wpc, cycle, hash, cfg, err, bucketClient, clIdx>>
svcVars == <<loadPath, state, ctxDone, tickerOn, tickPending, loopInvoked, stopChans>>
cellVars == <<configWriter, config>>
gaugeVars == <<configLoadSuccess, configHash>>
regVars == <<listenersMtx, listeners, chans, panicked>>
readerVars == <<lastGet>>
histVars == <<published, pre>>

\* ------------------------------------------------------------------ helpers
Range(s) == {s[i] : i \in 1..Len(s)}

\* sha256.Sum256(buf) printed with %x: one label per content.
Sum256(b) == <<"sha256", b>>

\* cfg.Loader: a pure decoder; it fails on the content "bad".
LoaderFails(b) == b = "bad"
Loader(b, k) == [cycle |-> k, content |-> b]

\* ------------------------------------------------------------------ channels
\* make(chan interface{}, buffer)
MakeChan(buffer) ==
  [cap |-> buffer, buf |-> <<>>, closes |-> 0, recvWaiting |-> FALSE, got |-> <<>>]

\* A non-blocking send that looks at the buffer only and never hands the
\* value to a blocked receiver.
TrySendBufferOnly(c, v) ==
  IF Len(c.buf) < c.cap THEN [c EXCEPT !.buf = Append(@, v)] ELSE c

\* select { case ch <- v: default: } on an open channel.
TrySend(c, v) ==
  IF c.recvWaiting
    THEN [c EXCEPT !.recvWaiting = FALSE, !.got = Append(@, v)]
    ELSE IF Len(c.buf) < c.cap
      THEN [c EXCEPT !.buf = Append(@, v)]
      ELSE c

\* close(ch): a blocked receiver wakes up with the zero value.
CloseChan(c) == [c EXCEPT !.closes = @ + 1, !.recvWaiting = FALSE]

\* ------------------------------------------------------------------ Init
Init ==
  /\ loadPath \in LoadPaths
  /\ state = "Init"
  /\ wpc = "idle"
  /\ ctxDone = FALSE
  /\ tickerOn = FALSE
  /\ tickPending = FALSE
  /\ cycle = 0
  /\ hash = <<>>
  /\ cfg = Nil
  /\ err = "none"
  /\ bucketClient = FALSE
  /\ listenersMtx = "free"
  /\ listeners = <<>>
  /\ clIdx = 0
  /\ configWriter = FALSE
  /\ config = Nil
  /\ configLoadSuccess = 0
  /\ configHash = {}
  /\ chans = <<>>
  /\ panicked = FALSE
  /\ lastGet = Nil
  /\ published = <<>>
  /\ pre = [config |-> Nil, configHash |-> {}]
  /\ loopInvoked = FALSE
  /\ stopChans = -1

\* The manager exists: New returned it.
Constructed == state \notin {"Init", "NoManager"}


\* ------------------------------------------------------------------ New
\* New without the check of cfg.LoadPath.
NewAcceptsEmptyPath ==
  /\ state = "Init"
  /\ state' = "New"
  /\ UNCHANGED <<loadPath, ctxDone, tickerOn, tickPending, loopInvoked, stopChans>>
  /\ UNCHANGED <<workerVars, cellVars, gaugeVars, regVars, readerVars, histVars>>

\* New: an empty LoadPath is rejected, no Manager is returned.
New ==
  /\ state = "Init"
  /\ state' = IF loadPath = "" THEN "NoManager" ELSE "New"
  /\ UNCHANGED <<loadPath, ctxDone, tickerOn, tickPending, loopInvoked, stopChans>>
  /\ UNCHANGED <<workerVars, cellVars, gaugeVars, regVars, readerVars, histVars>>

\* ------------------------------------------------------------------ service
\* The basic service (services.NewBasicService) calls starting, then loop,
\* then stopping, on one goroutine.

\* StartAsync: the service goroutine begins with the start function.
StartAsync ==
  /\ state = "New"
  /\ state' = "Starting"
  /\ wpc' = "starting"
  /\ UNCHANGED <<loadPath, ctxDone, tickerOn, tickPending, loopInvoked, stopChans>>
  /\ UNCHANGED <<cycle, hash, cfg, err, bucketClient, clIdx>>
  /\ UNCHANGED <<cellVars, gaugeVars, regVars, readerVars, histVars>>

\* StopAsync, or the parent context ending: the service context is cancelled.
Cancel ==
  /\ state \in {"Starting", "Running"}
  /\ ~ctxDone
  /\ ctxDone' = TRUE
  /\ UNCHANGED <<loadPath, state, tickerOn, tickPending, loopInvoked, stopChans>>
  /\ UNCHANGED <<workerVars, cellVars, gaugeVars, regVars, readerVars, histVars>>

\* The start function returned: an error fails the service and neither loop
\* nor stopping runs; otherwise loop runs, unless the context is cancelled
\* already, in which case the service goes to stopping.
ServiceStarted ==
  /\ wpc = "startReturned"
  /\ IF err # "nil"
       THEN state' = "Failed" /\ wpc' = "done"
       ELSE IF ctxDone
         THEN state' = "Stopping" /\ wpc' = "stopping"
         ELSE state' = "Running" /\ wpc' = "loop"
  /\ UNCHANGED <<loadPath, ctxDone, tickerOn, tickPending, loopInvoked, stopChans>>
  /\ UNCHANGED <<cycle, hash, cfg, err, bucketClient, clIdx>>
  /\ UNCHANGED <<cellVars, gaugeVars, regVars, readerVars, histVars>>

\* The run function returned: the service calls stopping.
ServiceRunReturned ==
  /\ wpc = "loopReturned"
  /\ state' = "Stopping"
  /\ wpc' = "stopping"
  /\ UNCHANGED <<loadPath, ctxDone, tickerOn, tickPending, loopInvoked, stopChans>>
  /\ UNCHANGED <<cycle, hash, cfg, err, bucketClient, clIdx>>
  /\ UNCHANGED <<cellVars, gaugeVars, regVars, readerVars, histVars>>

\* stopping returned: the service is terminated.
ServiceTerminated ==
  /\ wpc = "stopped"
  /\ state' = "Terminated"
  /\ wpc' = "done"
  /\ UNCHANGED <<loadPath, ctxDone, tickerOn, tickPending, loopInvoked, stopChans>>
  /\ UNCHANGED <<cycle, hash, cfg, err, bucketClient, clIdx>>
  /\ UNCHANGED <<cellVars, gaugeVars, regVars, readerVars, histVars>>

\* time.Ticker: a tick is put in ticker.C (capacity 1) when it is empty.
Tick ==
  /\ tickerOn
  /\ ~tickPending
  /\ cycle < MaxCycles
  /\ tickPending' = TRUE
  /\ UNCHANGED <<loadPath, state, ctxDone, tickerOn, loopInvoked, stopChans>>
  /\ UNCHANGED <<workerVars, cellVars, gaugeVars, regVars, readerVars, histVars>>

\* ------------------------------------------------------------------ loadConfig
\* loadConfig is entered: the cycle is counted and the state it starts from
\* is remembered.
BeginCycle ==
  /\ cycle' = cycle + 1
  /\ pre' = [config |-> config, configHash |-> configHash]
  /\ wpc' = "fetch"

\* loop returns the error of loadConfig instead of logging it.
ReturnToStopOnError(e) ==
  /\ err' = e
  /\ wpc' = IF state = "Starting" THEN "startReturned"
            ELSE IF e = "nil" THEN "select" ELSE "loopReturned"
  /\ hash' = <<>>
  /\ cfg' = Nil

\* The error of loadConfig is dropped: its caller sees nil.
ReturnToDropError(e) ==
  /\ err' = "nil"
  /\ wpc' = IF state = "Starting" THEN "startReturned" ELSE "select"
  /\ hash' = <<>>
  /\ cfg' = Nil

\* loadConfig returns e to its caller: starting while the service is
\* starting, loop afterwards.
ReturnTo(e) ==
  /\ err' = e
  /\ wpc' = IF state = "Starting" THEN "startReturned" ELSE "select"
  /\ hash' = <<>>
  /\ cfg' = Nil

\* loadConfig with callListeners(cfg) written before setConfig(cfg).
LoadConfigNextPublishFirst(pc) ==
  CASE pc = "decode" -> "callListeners"
    [] pc = "callListeners" -> "setConfig"
    [] pc = "setConfig" -> "hashReset"

\* The statements of loadConfig after a successful decode, in their order:
\* setConfig(cfg), callListeners(cfg), configHash.Reset(), and the statement
\* that follows each.
LoadConfigNext(pc) ==
  CASE pc = "decode" -> "setConfig"
    [] pc = "setConfig" -> "callListeners"
    [] pc = "callListeners" -> "hashReset"

\* starting: nothing to do without a path; otherwise make the bucket client
\* and do the initial load.
Starting ==
  /\ wpc = "starting"
  /\ IF loadPath = ""
       THEN /\ err' = "nil"
            /\ wpc' = "startReturned"
            /\ UNCHANGED <<cycle, bucketClient, pre>>
       ELSE \E factoryOk \in BOOLEAN :
              IF factoryOk
                THEN /\ bucketClient' = TRUE
                     /\ BeginCycle
                     /\ UNCHANGED err
                ELSE /\ err' = "factory"
                     /\ wpc' = "startReturned"
                     /\ UNCHANGED <<cycle, bucketClient, pre>>
  /\ UNCHANGED <<hash, cfg, clIdx, published>>
  /\ UNCHANGED <<svcVars, cellVars, gaugeVars, regVars, readerVars>>

\* loadConfigFromBucket, then the hash of what was read.  The bucket fails,
\* or returns some content.
LoadConfigFetch ==
  /\ wpc = "fetch"
  /\ \E ok \in BOOLEAN :
       IF ok
         THEN /\ \E b \in Bytes : hash' = <<b, Sum256(b)>>
              /\ wpc' = "decode"
              /\ UNCHANGED <<err, cfg, configLoadSuccess>>
         ELSE /\ configLoadSuccess' = 0
              /\ ReturnTo("read file")
  /\ UNCHANGED <<cycle, bucketClient, clIdx, configHash>>
  /\ UNCHANGED <<svcVars, cellVars, regVars, readerVars, histVars>>

\* loadConfig that returns early when the hash of the bytes read is the
\* label the hash gauge already shows.
LoadConfigDecodeDedup ==
  /\ wpc = "decode"
  /\ IF LoaderFails(hash[1])
       THEN /\ configLoadSuccess' = 0
            /\ ReturnTo("load file")
            /\ UNCHANGED published
       ELSE IF hash[2] \in configHash
         THEN /\ configLoadSuccess' = 1
              /\ ReturnTo("nil")
              /\ UNCHANGED published
         ELSE /\ cfg' = Loader(hash[1], cycle)
              /\ configLoadSuccess' = 1
              /\ published' = Append(published, Loader(hash[1], cycle))
              /\ wpc' = LoadConfigNext("decode")
              /\ UNCHANGED <<err, hash>>
  /\ UNCHANGED <<cycle, bucketClient, clIdx, configHash, pre>>
  /\ UNCHANGED <<svcVars, cellVars, regVars, readerVars>>

\* loadConfig without configLoadSuccess.Set(1) after the decode.
LoadConfigDecodeNoGauge ==
  /\ wpc = "decode"
  /\ IF LoaderFails(hash[1])
       THEN /\ configLoadSuccess' = 0
            /\ ReturnTo("load file")
            /\ UNCHANGED published
       ELSE /\ cfg' = Loader(hash[1], cycle)
            /\ published' = Append(published, Loader(hash[1], cycle))
            /\ wpc' = LoadConfigNext("decode")
            /\ UNCHANGED <<err, hash, configLoadSuccess>>
  /\ UNCHANGED <<cycle, bucketClient, clIdx, configHash, pre>>
  /\ UNCHANGED <<svcVars, cellVars, regVars, readerVars>>

\* cfg.Loader on the bytes read; the success gauge follows its result.
LoadConfigDecode ==
  /\ wpc = "decode"
  /\ IF LoaderFails(hash[1])
       THEN /\ configLoadSuccess' = 0
            /\ ReturnTo("load file")
            /\ UNCHANGED published
       ELSE /\ cfg' = Loader(hash[1], cycle)
            /\ configLoadSuccess' = 1
            /\ published' = Append(published, Loader(hash[1], cycle))
            /\ wpc' = LoadConfigNext("decode")
            /\ UNCHANGED <<err, hash>>
  /\ UNCHANGED <<cycle, bucketClient, clIdx, configHash, pre>>
  /\ UNCHANGED <<svcVars, cellVars, regVars, readerVars>>

\* setConfig without configMtx.Lock(): the assignment begins with the lock
\* free.
SetConfigLockSkipped ==
  /\ wpc = "setConfig"
  /\ UNCHANGED configWriter
  /\ config' = Torn
  /\ wpc' = "setConfigStore"
  /\ UNCHANGED <<cycle, hash, cfg, err, bucketClient, clIdx>>
  /\ UNCHANGED <<svcVars, gaugeVars, regVars, readerVars, histVars>>

\* setConfig: configMtx.Lock(), then om.config = config begins: the first
\* word of the interface value is written.
SetConfigLock ==
  /\ wpc = "setConfig"
  /\ ~configWriter
  /\ configWriter' = TRUE
  /\ config' = Torn
  /\ wpc' = "setConfigStore"
  /\ UNCHANGED <<cycle, hash, cfg, err, bucketClient, clIdx>>
  /\ UNCHANGED <<svcVars, gaugeVars, regVars, readerVars, histVars>>

\* setConfig that leaves configMtx locked when it returns, so that the
\* fan-out runs with the lock still held.
SetConfigStoreKeepsLock ==
  /\ wpc = "setConfigStore"
  /\ config' = cfg
  /\ UNCHANGED configWriter
  /\ wpc' = LoadConfigNext("setConfig")
  /\ UNCHANGED <<cycle, hash, cfg, err, bucketClient, clIdx>>
  /\ UNCHANGED <<svcVars, gaugeVars, regVars, readerVars, histVars>>

\* setConfig: the assignment is complete; the deferred configMtx.Unlock()
SetConfigStore ==
  /\ wpc = "setConfigStore"
  /\ config' = cfg
  /\ configWriter' = FALSE
  /\ wpc' = LoadConfigNext("setConfig")
  /\ UNCHANGED <<cycle, hash, cfg, err, bucketClient, clIdx>>
  /\ UNCHANGED <<svcVars, gaugeVars, regVars, readerVars, histVars>>

\* callListeners without listenersMtx.Lock(): the range over om.listeners
\* begins with the lock free.
CallListenersLockSkipped ==
  /\ wpc = "callListeners"
  /\ UNCHANGED listenersMtx
  /\ clIdx' = 1
  /\ wpc' = "send"
  /\ UNCHANGED <<cycle, hash, cfg, err, bucketClient>>
  /\ UNCHANGED <<listeners, chans, panicked>>
  /\ UNCHANGED <<svcVars, cellVars, gaugeVars, readerVars, histVars>>

\* callListeners: listenersMtx.Lock() and the range over om.listeners begins.
CallListenersLock ==
  /\ wpc = "callListeners"
  /\ listenersMtx = "free"
  /\ listenersMtx' = "worker"
  /\ clIdx' = 1
  /\ wpc' = "send"
  /\ UNCHANGED <<cycle, hash, cfg, err, bucketClient>>
  /\ UNCHANGED <<listeners, chans, panicked>>
  /\ UNCHANGED <<svcVars, cellVars, gaugeVars, readerVars, histVars>>

\* callListeners that tries a listener again after a send that succeeded.
CallListenersSendRepeat ==
  /\ wpc = "send"
  /\ clIdx <= Len(listeners)
  /\ chans' = [chans EXCEPT ![listeners[clIdx]] = TrySend(@, cfg)]
  /\ clIdx' = IF TrySend(chans[listeners[clIdx]], cfg) = chans[listeners[clIdx]]
                THEN clIdx + 1 ELSE clIdx
  /\ UNCHANGED <<wpc, cycle, hash, cfg, err, bucketClient>>
  /\ UNCHANGED <<listenersMtx, listeners, panicked>>
  /\ UNCHANGED <<svcVars, cellVars, gaugeVars, readerVars, histVars>>

\* callListeners with a plain `ch <- newValue`: the send waits until the
\* channel can take the value.
CallListenersSendBlocking ==
  /\ wpc = "send"
  /\ clIdx <= Len(listeners)
  /\ LET c == chans[listeners[clIdx]] IN c.recvWaiting \/ Len(c.buf) < c.cap
  /\ chans' = [chans EXCEPT ![listeners[clIdx]] = TrySend(@, cfg)]
  /\ clIdx' = clIdx + 1
  /\ UNCHANGED <<wpc, cycle, hash, cfg, err, bucketClient>>
  /\ UNCHANGED <<listenersMtx, listeners, panicked>>
  /\ UNCHANGED <<svcVars, cellVars, gaugeVars, readerVars, histVars>>

\* callListeners: one iteration, the non-blocking send to listeners[clIdx].
\* A send on a closed channel panics.
CallListenersSend ==
  /\ wpc = "send"
  /\ clIdx <= Len(listeners)
  /\ LET ch == listeners[clIdx] IN
       IF chans[ch].closes > 0
         THEN panicked' = TRUE /\ UNCHANGED chans
         ELSE chans' = [chans EXCEPT ![ch] = TrySend(@, cfg)] /\ UNCHANGED panicked
  /\ clIdx' = clIdx + 1
  /\ UNCHANGED <<wpc, cycle, hash, cfg, err, bucketClient>>
  /\ UNCHANGED <<listenersMtx, listeners>>
  /\ UNCHANGED <<svcVars, cellVars, gaugeVars, readerVars, histVars>>

\* callListeners: the range is over; the deferred Unlock runs.
CallListenersUnlock ==
  /\ wpc = "send"
  /\ clIdx > Len(listeners)
  /\ listenersMtx' = "free"
  /\ clIdx' = 0
  /\ wpc' = LoadConfigNext("callListeners")
  /\ UNCHANGED <<cycle, hash, cfg, err, bucketClient>>
  /\ UNCHANGED <<listeners, chans, panicked>>
  /\ UNCHANGED <<svcVars, cellVars, gaugeVars, readerVars, histVars>>

\* loadConfig without configHash.Reset(): the old labels stay.
HashResetSkipped ==
  /\ wpc = "hashReset"
  /\ wpc' = "hashSet"
  /\ UNCHANGED <<cycle, hash, cfg, err, bucketClient, clIdx>>
  /\ UNCHANGED <<configLoadSuccess, configHash>>
  /\ UNCHANGED <<svcVars, cellVars, regVars, readerVars, histVars>>

\* configHash.Reset()
HashReset ==
  /\ wpc = "hashReset"
  /\ configHash' = {}
  /\ wpc' = "hashSet"
  /\ UNCHANGED <<cycle, hash, cfg, err, bucketClient, clIdx, configLoadSuccess>>
  /\ UNCHANGED <<svcVars, cellVars, regVars, readerVars, histVars>>

\* configHash.WithLabelValues(hash).Set(1); return nil
HashSet ==
  /\ wpc = "hashSet"
  /\ configHash' = configHash \cup {hash[2]}
  /\ ReturnTo("nil")
  /\ UNCHANGED <<cycle, bucketClient, clIdx, configLoadSuccess>>
  /\ UNCHANGED <<svcVars, cellVars, regVars, readerVars, histVars>>

\* ------------------------------------------------------------------ loop
\* loop is entered: without a path it only waits for the context, otherwise
\* it makes the ticker.
LoopEnter ==
  /\ wpc = "loop"
  /\ loopInvoked' = TRUE
  /\ IF loadPath = ""
       THEN wpc' = "waitDone" /\ UNCHANGED tickerOn
       ELSE wpc' = "select" /\ tickerOn' = TRUE
  /\ UNCHANGED <<loadPath, state, ctxDone, tickPending, stopChans>>
  /\ UNCHANGED <<cycle, hash, cfg, err, bucketClient, clIdx>>
  /\ UNCHANGED <<cellVars, gaugeVars, regVars, readerVars, histVars>>

\* select, case <-ticker.C: the tick is taken and loadConfig is called.
LoopTick ==
  /\ wpc = "select"
  /\ tickPending
  /\ tickPending' = FALSE
  /\ BeginCycle
  /\ UNCHANGED <<loadPath, state, ctxDone, tickerOn, loopInvoked, stopChans>>
  /\ UNCHANGED <<hash, cfg, err, bucketClient, clIdx, published>>
  /\ UNCHANGED <<cellVars, gaugeVars, regVars, readerVars>>

\* <-ctx.Done(): loop returns nil and the deferred ticker.Stop runs.
LoopDone ==
  /\ wpc \in {"select", "waitDone"}
  /\ ctxDone
  /\ wpc' = "loopReturned"
  /\ tickerOn' = FALSE
  /\ UNCHANGED <<loadPath, state, ctxDone, tickPending, loopInvoked, stopChans>>
  /\ UNCHANGED <<cycle, hash, cfg, err, bucketClient, clIdx>>
  /\ UNCHANGED <<cellVars, gaugeVars, regVars, readerVars, histVars>>

\* ------------------------------------------------------------------ stopping
\* stopping without the final om.listeners = nil.
StoppingKeepsListeners ==
  /\ wpc = "stopping"
  /\ listenersMtx = "free"
  /\ chans' = [i \in 1..Len(chans) |->
                 IF i \in Range(listeners) THEN CloseChan(chans[i]) ELSE chans[i]]
  /\ panicked' = (panicked \/ \E i \in Range(listeners) : chans[i].closes > 0)
  /\ stopChans' = Len(chans)
  /\ wpc' = "stopped"
  /\ UNCHANGED <<loadPath, state, ctxDone, tickerOn, tickPending, loopInvoked>>
  /\ UNCHANGED <<cycle, hash, cfg, err, bucketClient, clIdx, listenersMtx, listeners>>
  /\ UNCHANGED <<cellVars, gaugeVars, readerVars, histVars>>

\* stopping: under listenersMtx every registered channel is closed and the
\* registry is dropped.  Closing a closed channel panics.
Stopping ==
  /\ wpc = "stopping"
  /\ listenersMtx = "free"
  /\ chans' = [i \in 1..Len(chans) |->
                 IF i \in Range(listeners) THEN CloseChan(chans[i]) ELSE chans[i]]
  /\ panicked' = (panicked \/ \E i \in Range(listeners) : chans[i].closes > 0)
  /\ listeners' = <<>>
  /\ stopChans' = Len(chans)
  /\ wpc' = "stopped"
  /\ UNCHANGED <<loadPath, state, ctxDone, tickerOn, tickPending, loopInvoked>>
  /\ UNCHANGED <<cycle, hash, cfg, err, bucketClient, clIdx, listenersMtx>>
  /\ UNCHANGED <<cellVars, gaugeVars, readerVars, histVars>>

\* ------------------------------------------------------------------ clients
\* CreateListenerChannel that puts the loaded configuration into the buffer
\* of the channel it returns.
CreateListenerChannelReplay(buffer) ==
  /\ Constructed
  /\ Len(chans) < MaxChans
  /\ listenersMtx = "free"
  /\ chans' = Append(chans,
                IF buffer > 0 /\ config \notin {Nil, Torn}
                  THEN [MakeChan(buffer) EXCEPT !.buf = <<config>>]
                  ELSE MakeChan(buffer))
  /\ listeners' = Append(listeners, Len(chans) + 1)
  /\ UNCHANGED <<listenersMtx, panicked>>
  /\ UNCHANGED <<svcVars, workerVars, cellVars, gaugeVars, readerVars, histVars>>

\* CreateListenerChannel(buffer): a new channel is appended to om.listeners.
CreateListenerChannel(buffer) ==
  /\ Constructed
  /\ Len(chans) < MaxChans
  /\ listenersMtx = "free"
  /\ chans' = Append(chans, MakeChan(buffer))
  /\ listeners' = Append(listeners, Len(chans) + 1)
  /\ UNCHANGED <<listenersMtx, panicked>>
  /\ UNCHANGED <<svcVars, workerVars, cellVars, gaugeVars, readerVars, histVars>>

\* The channel is closed but its entry stays in the registry.
RemoveNothing(l, ix) == l

\* Only the entries before ix are kept: l[:ix] without the append.
RemoveFrom(l, ix) == SubSeq(l, 1, ix - 1)

\* The entry after ix is dropped instead of the one at ix:
\* append(l[:ix+1], l[ix+2:]...)
RemoveNext(l, ix) == SubSeq(l, 1, ix) \o SubSeq(l, ix + 2, Len(l))

\* The registry without its entry at ix: append(l[:ix], l[ix+1:]...)
RemoveAt(l, ix) == SubSeq(l, 1, ix - 1) \o SubSeq(l, ix + 1, Len(l))

\* The first index of l that holds ch, 0 when none does (the range loop
\* with its break).
IndexOf(l, ch) ==
  IF \E i \in 1..Len(l) : l[i] = ch
    THEN CHOOSE i \in 1..Len(l) : l[i] = ch /\ \A j \in 1..(i - 1) : l[j] # ch
    ELSE 0

\* CloseListenerChannel(listener): the channel is looked up in om.listeners;
\* when found it is removed and closed.
CloseListenerChannel(listener) ==
  /\ Constructed
  /\ listenersMtx = "free"
  /\ LET ix == IndexOf(listeners, listener) IN
       IF ix # 0
         THEN /\ listeners' = RemoveAt(listeners, ix)
              /\ chans' = [chans EXCEPT ![listener] = CloseChan(@)]
              /\ panicked' = (panicked \/ chans[listener].closes > 0)
         ELSE UNCHANGED <<listeners, chans, panicked>>
  /\ UNCHANGED listenersMtx
  /\ UNCHANGED <<svcVars, workerVars, cellVars, gaugeVars, readerVars, histVars>>

\* GetConfig without configMtx.RLock(): it reads om.config also while
\* setConfig is writing it.
GetConfigNoLock ==
  /\ Constructed
  /\ lastGet' = config
  /\ UNCHANGED <<svcVars, workerVars, cellVars, gaugeVars, regVars, histVars>>

\* GetConfig: under configMtx.RLock(), which waits while a writer holds the
\* lock, om.config is read and returned.
GetConfig ==
  /\ Constructed
  /\ ~configWriter
  /\ lastGet' = config
  /\ UNCHANGED <<svcVars, workerVars, cellVars, gaugeVars, regVars, histVars>>

\* The owner of channel ch receives from it: a buffered value is taken; on
\* an open unbuffered channel the receiver blocks until a send or a close.
Receive(ch) ==
  /\ ch \in 1..Len(chans)
  /\ LET c == chans[ch] IN
       IF Len(c.buf) > 0
         THEN chans' = [chans EXCEPT ![ch].buf = Tail(@), ![ch].got = Append(@, Head(c.buf))]
         ELSE /\ c.cap = 0
              /\ c.closes = 0
              /\ ~c.recvWaiting
              /\ chans' = [chans EXCEPT ![ch].recvWaiting = TRUE]
  /\ UNCHANGED <<listenersMtx, listeners, panicked>>
  /\ UNCHANGED <<svcVars, workerVars, cellVars, gaugeVars, readerVars, histVars>>

\* The handles a client can pass to CloseListenerChannel.
Handles == {Foreign} \cup (1..Len(chans))

Next ==
  \/ New
  \/ StartAsync
  \/ Cancel
  \/ ServiceStarted
  \/ ServiceRunReturned
  \/ ServiceTerminated
  \/ Tick
  \/ Starting
  \/ LoadConfigFetch
  \/ LoadConfigDecode
  \/ SetConfigLock
  \/ SetConfigStore
  \/ CallListenersLock
  \/ CallListenersSend
  \/ CallListenersUnlock
  \/ HashReset
  \/ HashSet
  \/ LoopEnter
  \/ LoopTick
  \/ LoopDone
  \/ Stopping
  \/ \E buffer \in Buffers : CreateListenerChannel(buffer)
  \/ \E listener \in Handles : CloseListenerChannel(listener)
  \/ GetConfig
  \/ \E ch \in 1..MaxChans : Receive(ch)

Spec == Init /\ [][Next]_vars

\* The statements of loadConfig that follow a successful decode.  None of
\* them waits for input, so the goroutine that runs them keeps taking them.
PublishStep ==
  \/ SetConfigLock
  \/ SetConfigStore
  \/ CallListenersLock
  \/ CallListenersSend
  \/ CallListenersUnlock
  \/ HashReset
  \/ HashSet

\* The behaviours in which the scheduler keeps running the reload worker;
\* nothing is assumed of the clients, which may never receive.
FairSpec == Spec /\ WF_vars(PublishStep)


\* ================================================================== claims
\* The values channel ch has been given so far, received ones first.
Delivered(ch) == chans[ch].got \o chans[ch].buf

\* The step of callListeners that tries the send to listeners[clIdx].
SendStep == wpc = "send" /\ clIdx <= Len(listeners) /\ clIdx' = clIdx + 1

\* The channel the next send of callListeners is for.
Target == chans[listeners[clIdx]]

\* The send of this step put cfg on its channel, or left the channel alone.
SendDelivers ==
  LET ch == listeners[clIdx] IN
    chans'[ch].got \o chans'[ch].buf = Append(Delivered(ch), cfg)
SendDrops == chans' = chans

\* ------------------------------------------------------------------ C1
\* C1 (as stated): each send of callListeners delivers the value when the
\* channel has free buffer capacity, and does not deliver it when the channel
\* has zero free capacity (a full buffer, or an unbuffered channel).
C1_FreeCapacityOnly ==
  [][SendStep =>
       /\ (Len(Target.buf) < Target.cap => SendDelivers)
       /\ (Len(Target.buf) >= Target.cap => SendDrops)]_vars

\* C1 (amended): each send of callListeners, one for every registered
\* listener, delivers the value exactly when the channel has free buffer
\* capacity or a receiver is blocked on it; with neither, the value is
\* dropped for that listener and nothing about the channel changes.
C1_FanOut ==
  [][SendStep =>
       /\ ((Len(Target.buf) < Target.cap \/ Target.recvWaiting) => SendDelivers)
       /\ (~(Len(Target.buf) < Target.cap \/ Target.recvWaiting) => SendDrops)
       /\ (wpc' = "send" /\ listeners' = listeners)]_vars

\* C1 witness: callListeners is past a listener with an unbuffered channel
\* that got cfg by hand-off and past one with a full buffer that did not.
C1_Witness ==
  /\ wpc = "send"
  /\ clIdx = 3
  /\ \E a, b \in Range(listeners) :
       /\ chans[a].cap = 0 /\ Len(chans[a].got) > 0
       /\ chans[a].got[Len(chans[a].got)] = cfg
       /\ chans[b].cap = 1 /\ Len(chans[b].buf) = 1 /\ chans[b].buf[1] # cfg


\* ------------------------------------------------------------------ C2
\* C2: whatever the listeners do (they may never receive, with any buffer
\* size), a load that decoded its value runs setConfig, callListeners and the
\* hash update to their end and returns to its caller (loop waits for the
\* next tick again), and no channel ever queues more than its capacity.
C2_NeverWaitsOnConsumer ==
  /\ [](\A ch \in 1..Len(chans) : Len(chans[ch].buf) <= chans[ch].cap)
  /\ (wpc = "setConfig") ~> (wpc \in {"select", "startReturned"} /\ err = "nil")

\* C2 witness: a load has returned to loop although a registered listener,
\* which never received anything, has a full buffer, and another listener
\* has an unbuffered channel nobody receives from.
C2_Witness ==
  /\ wpc = "select"
  /\ err = "nil"
  /\ cycle >= 2
  /\ \E a, b \in Range(listeners) :
       /\ chans[a].cap = 1 /\ Len(chans[a].buf) = 1 /\ chans[a].got = <<>>
       /\ chans[a].buf[1].cycle < cycle
       /\ chans[b].cap = 0 /\ chans[b].got = <<>> /\ ~chans[b].recvWaiting


\* ------------------------------------------------------------------ C3
\* C3: a GetConfig call that starts when some listener has already received
\* a value V from its channel returns V or the value of a later successful
\* cycle: never the absent value, never the value of an earlier cycle.
C3_SwapBeforePublish ==
  [][GetConfig =>
       \A ch \in 1..Len(chans) : \A i \in 1..Len(chans[ch].got) :
         /\ lastGet' \in Range(published)
         /\ lastGet'.cycle >= chans[ch].got[i].cycle]_vars

\* C3 witness: while the fan-out of the second or a later cycle is still
\* going on, a listener has received its value and GetConfig returned it.
C3_Witness ==
  /\ wpc = "send"
  /\ cycle >= 2
  /\ lastGet = cfg
  /\ \E ch \in 1..Len(chans) :
       Len(chans[ch].got) > 0 /\ chans[ch].got[Len(chans[ch].got)] = cfg

\* ------------------------------------------------------------------ C4
RECURSIVE IsSubseq(_, _)
\* s is t with some of its elements left out.
IsSubseq(s, t) ==
  IF s = <<>> THEN TRUE
  ELSE IF t = <<>> THEN FALSE
  ELSE IF Head(s) = Head(t) THEN IsSubseq(Tail(s), Tail(t))
  ELSE IsSubseq(s, Tail(t))

\* C4: what a listener has received, followed by what waits in its buffer,
\* is a subsequence of the values of the successful cycles in cycle order:
\* nothing twice, nothing out of order, nothing older after something newer.
C4_SubsequenceOfCycles ==
  \A ch \in 1..Len(chans) : IsSubseq(Delivered(ch), published)

\* C4 witness: a listener has received the values of the first and the
\* third successful cycle and missed the second one.
C4_Witness ==
  /\ Len(published) = 3
  /\ \E ch \in 1..Len(chans) :
       chans[ch].got = <<published[1], published[3]>>


\* ------------------------------------------------------------------ C5
\* C5: once stopping has run, every channel made before it is closed and is
\* not in the registry (stopping leaves the registry empty), and none of
\* those channels is given a value afterwards.
C5_ShutdownClosesAll ==
  /\ [](stopChans >= 0 =>
          \A ch \in 1..stopChans :
            chans[ch].closes >= 1 /\ ch \notin Range(listeners))
  /\ [][(wpc = "stopping" /\ wpc' = "stopped") => listeners' = <<>>]_vars
  /\ [][stopChans >= 0 =>
          \A ch \in 1..stopChans :
            Len(chans'[ch].got) + Len(chans'[ch].buf) = Len(Delivered(ch))]_vars

\* C5 witness: the service is terminated; of the channels made before,
\* one that had received a value was still registered when stopping ran.
C5_Witness ==
  /\ state = "Terminated"
  /\ stopChans = MaxChans
  /\ listeners = <<>>
  /\ \A ch \in 1..stopChans : chans[ch].closes = 1
  /\ \E ch \in 1..stopChans : Len(chans[ch].got) > 0 /\ Len(chans[ch].buf) > 0

\* ------------------------------------------------------------------ C6
\* C6: no channel is ever closed twice (no close panics), whatever calls of
\* CloseListenerChannel, repeated or late, interleave with stopping; and
\* once stopping has run, each channel made before it has been closed
\* exactly once.
C6_ClosedExactlyOnce ==
  /\ ~panicked
  /\ \A ch \in 1..Len(chans) : chans[ch].closes <= 1
  /\ stopChans >= 0 => \A ch \in 1..stopChans : chans[ch].closes = 1

\* C6 witness: stopping has run with one channel still registered, after
\* another one had been closed by CloseListenerChannel.
C6_Witness ==
  /\ wpc = "stopped"
  /\ stopChans = 2
  /\ chans[1].closes = 1 /\ chans[2].closes = 1
  /\ chans[1].recvWaiting = FALSE
  /\ Len(chans[2].buf) = 1

CycleFails ==
  /\ state = "Running"
  /\ \/ wpc = "fetch" /\ wpc' \notin {"fetch", "decode"}
     \/ wpc = "decode" /\ wpc' # "decode" /\ LoaderFails(hash[1])

\* C8: when a cycle of the running loop fails at fetch or at decode, the
\* success gauge becomes 0, om.config is the value from before the cycle and
\* readable, the hash gauge is as before the cycle, no channel holds a value
\* of this cycle, and the loop is back at its select with the ticker on.
C8_CycleErrorContained ==
  [][CycleFails =>
       /\ configLoadSuccess' = 0
       /\ config' = pre.config /\ ~configWriter'
       /\ configHash' = pre.configHash
       /\ chans' = chans
       /\ \A ch \in 1..Len(chans) : \A i \in 1..Len(Delivered(ch)) :
            Delivered(ch)[i].cycle # cycle
       /\ published' = published
       /\ state' = "Running" /\ wpc' = "select" /\ tickerOn']_vars

\* C8 witness: the second cycle failed, the values of the first cycle are
\* still in place, and the loop has taken the next tick: the third cycle
\* is fetching.
C8_Witness ==
  /\ state = "Running"
  /\ cycle = 3
  /\ wpc = "fetch"
  /\ err \in {"read file", "load file"}
  /\ configLoadSuccess = 0
  /\ config = published[1]
  /\ configHash = {Sum256(config.content)}

InitialLoadFailed ==
  /\ loadPath # ""
  /\ wpc \notin {"idle", "starting", "fetch", "decode"}
  /\ published = <<>>

\* C10: when the bucket client factory or the initial load fails, starting
\* returns an error, the service never runs loop (no ticker, no reload), the
\* configuration stays absent and no listener is given a value.
C10_StartupAllOrNothing ==
  InitialLoadFailed =>
    /\ err \in {"factory", "read file", "load file"}
    /\ state \in {"Starting", "Failed"}
    /\ ~loopInvoked /\ ~tickerOn /\ ~tickPending
    /\ cycle <= 1
    /\ config = Nil /\ lastGet = Nil
    /\ \A ch \in 1..Len(chans) : Delivered(ch) = <<>>

\* C10 witness: the initial load failed at decode, the service has failed,
\* and a listener registered before the start waits on its channel.
C10_Witness ==
  /\ state = "Failed"
  /\ err = "load file"
  /\ cycle = 1
  /\ Len(listeners) = 2
  /\ \E ch \in 1..Len(chans) : chans[ch].recvWaiting


\* ------------------------------------------------------------------ C11
\* The first successful load has returned.
FirstLoadDone ==
  /\ published # <<>>
  /\ \/ published[1].cycle < cycle
     \/ wpc \notin {"setConfig", "setConfigStore", "callListeners", "send",
                    "hashReset", "hashSet"}

\* C11 (as stated): from the completion of the first successful load on,
\* also while a later reload is in progress, the hash gauge has exactly one
\* label.
C11_AlwaysOneLabel == FirstLoadDone => Cardinality(configHash) = 1

\* C11 (amended): from the completion of the first successful load on, the
\* hash gauge never has two labels, and it has exactly one label except
\* between configHash.Reset() and the Set that follows it in a later
\* successful reload, where it has none.
C11_OneLabelOutsideReset ==
  FirstLoadDone =>
    /\ Cardinality(configHash) <= 1
    /\ configHash = {} <=> wpc = "hashSet"

\* C11 witness: a reload after the first successful load has reset the
\* gauge and not yet set the new label.
C11_Witness == FirstLoadDone /\ wpc = "hashSet" /\ configHash = {}

\* ------------------------------------------------------------------ C12
\* C12: when loadConfig has returned nil, the success gauge is 1, om.config
\* (readable: no writer holds configMtx) is the value decoded in that cycle,
\* and the hash gauge holds the hash of the bytes of that cycle and no
\* other label.
C12_SuccessfulCycleOutcome ==
  (err = "nil" /\ wpc \in {"select", "startReturned"}) =>
    /\ configLoadSuccess = 1
    /\ ~configWriter
    /\ config = published[Len(published)]
    /\ config.cycle = cycle
    /\ configHash = {Sum256(config.content)}

\* C12 witness: the third cycle succeeded after a failed second one, with
\* bytes other than those of the first cycle, whose label is gone.
C12_Witness ==
  /\ err = "nil"
  /\ wpc = "select"
  /\ cycle = 3
  /\ Len(published) = 2
  /\ published[1].content # config.content
  /\ Sum256(published[1].content) \notin configHash


\* ------------------------------------------------------------------ C13
\* C13: once the context of the running loop is cancelled, no new reload
\* cycle begins, also when a tick is pending at that moment.
C13_NoCycleAfterCancel ==
  [][(ctxDone /\ state = "Running") => cycle' = cycle]_vars

\* ------------------------------------------------------------------ C14
\* The bytes of the current cycle are those of the previous successful one.
SameBytesAgain ==
  /\ pre.config # Nil
  /\ hash # <<>>
  /\ hash[1] = pre.config.content

\* C14: a cycle that reads the bytes of the previous successful cycle again
\* decodes them again into a new value, stores that value, offers it to
\* every listener (delivered where the channel can take it) and, when it
\* has returned, the hash gauge is the one label of those bytes.
C14_NoDedupByHash ==
  /\ [][(wpc = "decode" /\ SameBytesAgain /\ wpc' # "decode") =>
          /\ wpc' = "setConfig"
          /\ cfg' = [cycle |-> cycle, content |-> pre.config.content]
          /\ cfg' # pre.config]_vars
  /\ [][(SendStep /\ SameBytesAgain) =>
          /\ config = cfg /\ config # pre.config
          /\ (Len(Target.buf) < Target.cap => SendDelivers)]_vars
  /\ [][(wpc = "hashSet" /\ SameBytesAgain /\ wpc' # "hashSet") =>
          /\ config' = published[Len(published)] /\ config'.cycle = cycle
          /\ configHash' = pre.configHash
          /\ configHash' = {Sum256(pre.config.content)}]_vars

\* C14 witness: the second cycle read the bytes of the first one again, and
\* a listener with a buffer of one has received the values of both cycles.
C14_Witness ==
  /\ wpc = "hashSet"
  /\ cycle = 2
  /\ SameBytesAgain
  /\ \E ch \in 1..Len(chans) :
       /\ chans[ch].cap = 1
       /\ chans[ch].got = <<pre.config, cfg>>


\* ------------------------------------------------------------------ C15
\* C15: each GetConfig returns the value of a cycle at least as recent as
\* the one the GetConfig before it returned, and after a value was returned
\* no later GetConfig returns the absent value.
C15_MonotonicVisibility ==
  [][/\ lastGet'.cycle >= lastGet.cycle
     /\ lastGet # Nil => lastGet' # Nil]_vars

\* C15 witness: GetConfig returned the value of the first cycle, a later
\* cycle has replaced it, and the next GetConfig can run.
C15_Witness ==
  /\ Len(published) >= 2
  /\ lastGet = published[1]
  /\ config = published[2]
  /\ ~configWriter

\* ------------------------------------------------------------------ C16
\* The setConfig call that stores v has returned.
SetConfigCompleted(v) ==
  \/ v.cycle < cycle
  \/ wpc \notin {"setConfig", "setConfigStore"}

\* C16: what GetConfig returned is the absent value or a value passed to a
\* setConfig call that had completed, never a half-written one.
C16_SwapAtomicity ==
  /\ lastGet # Torn
  /\ \/ lastGet = Nil
     \/ /\ lastGet \in Range(published)
        /\ SetConfigCompleted(lastGet)

\* C16 witness: GetConfig returned the value of the first cycle and the
\* setConfig of the second cycle is in the middle of its assignment.
C16_Witness ==
  /\ configWriter
  /\ config = Torn
  /\ Len(published) = 2
  /\ lastGet = published[1]


\* ------------------------------------------------------------------ C17
\* C17: the reload worker never sends, or tries to send, on a listener
\* channel while it holds listenersMtx.
C17_NoSendUnderLock ==
  (wpc = "send" /\ clIdx <= Len(listeners)) => listenersMtx # "worker"

\* C17, amended: callListeners holds listenersMtx from before its first send
\* until after its last one, and no send waits for a consumer: while the
\* lock is held the worker can always take its next step, the next
\* non-blocking send or the unlock.
C17_LockHeldOnlyOverNonBlockingSends ==
  /\ wpc = "send" <=> listenersMtx = "worker"
  /\ listenersMtx = "worker" => ENABLED (CallListenersSend \/ CallListenersUnlock)

\* C17 witness: the fan-out holds the lock, has passed a listener whose
\* buffer was full with nobody receiving, and has a further send to make.
C17_Witness ==
  /\ wpc = "send"
  /\ listenersMtx = "worker"
  /\ clIdx = 2
  /\ Len(listeners) = 2
  /\ LET c == chans[listeners[1]] IN
       /\ c.cap = 1 /\ Len(c.buf) = 1 /\ ~c.recvWaiting
       /\ c.buf[1] # cfg


\* ------------------------------------------------------------------ C18
\* C18: configMtx and listenersMtx are never held together; GetConfig can
\* complete while the worker fetches, decodes or fans out under
\* listenersMtx; CreateListenerChannel and CloseListenerChannel can complete
\* while configMtx is held; and nothing waits for a lock forever: the worker
\* finds each lock free when it reaches it, and while it holds one it can
\* always take the step that leads to the unlock.
C18_IndependentLocks ==
  /\ ~(configWriter /\ listenersMtx = "worker")
  /\ (wpc \in {"fetch", "decode"} \/ listenersMtx = "worker") => ENABLED GetConfig
  /\ configWriter =>
       /\ \A h \in Handles : ENABLED CloseListenerChannel(h)
       /\ Len(chans) < MaxChans =>
            \A b \in Buffers : ENABLED CreateListenerChannel(b)
  /\ wpc = "setConfig" => ENABLED SetConfigLock
  /\ wpc = "callListeners" => ENABLED CallListenersLock
  /\ wpc = "stopping" => ENABLED Stopping
  /\ configWriter => ENABLED SetConfigStore
  /\ listenersMtx = "worker" => ENABLED (CallListenersSend \/ CallListenersUnlock)

\* C18 witness: the fan-out of the second cycle holds listenersMtx with a
\* send still to make, and GetConfig has already returned that cycle's value
\* while a registered channel and a closed one exist.
C18_Witness ==
  /\ listenersMtx = "worker"
  /\ ~configWriter
  /\ cycle = 2
  /\ clIdx = 1
  /\ Len(listeners) = 1
  /\ lastGet = cfg
  /\ \E ch \in 1..Len(chans) : chans[ch].closes = 1


\* ------------------------------------------------------------------ C19
\* C19: every channel in the listener registry is open, every closed channel
\* is absent from the registry, and no send on a closed channel (nor a
\* second close) has ever panicked.
C19_NoSendOnClosed ==
  /\ ~panicked
  /\ \A i \in 1..Len(listeners) : chans[listeners[i]].closes = 0
  /\ \A ch \in 1..Len(chans) : chans[ch].closes > 0 => ch \notin Range(listeners)
  /\ (wpc = "send" /\ clIdx <= Len(listeners)) => Target.closes = 0

\* C19 witness: a fan-out that began after one channel was closed has
\* delivered its value to the channel still registered, and nothing went to
\* the closed one.
C19_Witness ==
  /\ wpc = "send"
  /\ Len(chans) = 2
  /\ Len(listeners) = 1
  /\ clIdx = 2
  /\ cfg \in Range(Delivered(listeners[1]))
  /\ \E ch \in 1..Len(chans) :
       chans[ch].closes = 1 /\ cfg \notin Range(Delivered(ch))

\* ------------------------------------------------------------------ C20
\* C20: the channel CreateListenerChannel returns starts empty, whatever is
\* loaded, and the values a channel has taken grow only by a send of
\* callListeners to that channel while it is registered, the value being the
\* one of the running successful cycle, which the Config Cell already holds.
C20_NoReplayOnSubscribe ==
  /\ [][Len(chans') > Len(chans) =>
          /\ Len(chans') = Len(chans) + 1
          /\ chans'[Len(chans')].buf = <<>>
          /\ chans'[Len(chans')].got = <<>>
          /\ listeners' = Append(listeners, Len(chans'))]_vars
  /\ [][\A ch \in 1..Len(chans) :
          chans'[ch].got \o chans'[ch].buf # Delivered(ch) =>
            /\ SendStep
            /\ listenersMtx = "worker"
            /\ ch = listeners[clIdx]
            /\ chans'[ch].got \o chans'[ch].buf = Append(Delivered(ch), cfg)
            /\ cfg = config
            /\ cfg.cycle = cycle]_vars

\* C20 witness: after the first cycle completed, a channel with a buffer of
\* one was registered; it has received nothing, while GetConfig has returned
\* the loaded value.
C20_Witness ==
  /\ wpc = "select"
  /\ cycle = 1
  /\ config \notin {Nil, Torn}
  /\ lastGet = config
  /\ \E ch \in Range(listeners) :
       /\ chans[ch].cap = 1
       /\ Delivered(ch) = <<>>
       /\ ~chans[ch].recvWaiting

====
